---- MODULE Spec2Model ----
(***************************************************************************)
(* TradingView webhook -> exchange order execution, three venue variants:  *)
(*   okx    : src/okx_webhook_server.py      (OKXTrader, ccxt)             *)
(*   bybit  : src/binance_webhook_server.py  (BybitTrader, pybit)          *)
(*   alpaca : src/alpaca_webhook_server.py   (AlpacaTrader, alpaca-py)     *)
(*                                                                         *)
(* One webhook request is a sequence of steps; every blocking venue call   *)
(* is one step, so that requests served by different Flask worker threads  *)
(* interleave exactly at the venue calls.  Quantities are integers counted *)
(* in millionths of a unit (Micro), prices and risk are whole dollars.     *)
(***************************************************************************)
EXTENDS Integers, Sequences, FiniteSets

(* ------------------------------ bounds -------------------------------- *)
\* number of webhook requests accepted in one behaviour
MaxSignals == 2
\* the venue refuses an order that would take a position leg above this
MaxPos == 3000000

(* ------------------------- program constants -------------------------- *)
\* quantity units per 1.0: round(quantity, 6) in the Alpaca sizer
Micro == 1000000
\* OKX fallback / floor quantity 0.01
OkxDefaultQty == 10000
\* Alpaca floor quantity 0.0001
AlpacaMinQty == 100

Venues == {"okx", "bybit", "alpaca"}
Reqs == {"r1", "r2"}
\* symbols the venue lists; "XXX" is a symbol the venue does not know
Listed == {"BTC", "ETH"}
Symbols == Listed \cup {"XXX"}
Signals == {"LONG", "SHORT", "CLOSE", "BUY", "SELL", "HOLD"}
\* a price field of the JSON body: 0 stands for an absent field (the code's
\* default), Bad for a value float() cannot parse
Bad == -1
Entries == {0, 13, Bad}
Stops == {0, 10, 13}
Targets == {0, 14}
Risks == {2}
LivePrices == {10, 13}

Abs(x) == IF x < 0 THEN -x ELSE x
Min(a, b) == IF a < b THEN a ELSE b
Max(a, b) == IF a > b THEN a ELSE b

\* Python round(): nearest, ties to even; n >= 0, d > 0
RoundHalfEven(n, d) ==
    LET q == n \div d
        r == n % d
    IN  IF 2 * r < d THEN q
        ELSE IF 2 * r > d THEN q + 1
        ELSE IF q % 2 = 0 THEN q ELSE q + 1

\* ccxt decimal_to_precision(TRUNCATE, TICK_SIZE): largest multiple of lot <= n
Truncate(n, lot) == (n \div lot) * lot

(* ------------------------- venue reference data ----------------------- *)
\* ccxt market of a symbol as load_markets() returns it: 1/contractSize and
\* the amount tick (lot), in Micro; an unknown symbol has no market
NoMarket == [csInv |-> 0, lot |-> 0]
OkxMarkets(symbol) ==
    IF symbol = "BTC" THEN [csInv |-> 1, lot |-> 10000]
    ELSE IF symbol = "ETH" THEN [csInv |-> 10, lot |-> 1000000]
    ELSE NoMarket

\* Bybit lotSizeFilter of a symbol: qtyStep and minOrderQty, in Micro
BybitInstruments(symbol) ==
    IF symbol = "BTC" THEN [qtyStep |-> 1000, minOrderQty |-> 1000]
    ELSE [qtyStep |-> 100000, minOrderQty |-> 100000]

(* ------------------------------ sizing -------------------------------- *)
\* the falsy result of a sizer (None, 0, 0.0)
NoQty == 0

RECURSIVE Pow10(_)
Pow10(p) == IF p = 0 THEN 1 ELSE 10 * Pow10(p - 1)

RECURSIVE Decimals(_, _)
Decimals(step, p) ==
    IF (step * Pow10(p)) % Micro = 0 \/ p = 6 THEN p ELSE Decimals(step, p + 1)

\* len(str(qty_step).split('.')[1].rstrip('0')) when '.' is in str(qty_step):
\* str() of a float below 0.0001 is in exponent form ('1e-05') and has no '.'
QtyPrecision(qtyStep) == IF qtyStep < 100 THEN 0 ELSE Decimals(qtyStep, 0)

\* OKXTrader.calculate_position_size once load_markets() has returned
OkxPositionSize(market, risk_usd, entry_price, stop_loss) ==
    LET risk_price == Abs(entry_price - stop_loss)
        raw == (risk_usd * market.csInv * Micro) \div risk_price
        contracts == Truncate(raw, market.lot)
    IN  IF market = NoMarket THEN OkxDefaultQty
        ELSE IF risk_price = 0 THEN OkxDefaultQty
        ELSE Max(contracts, OkxDefaultQty)

\* BybitTrader.calculate_position_size once get_instruments_info() has
\* returned retCode 0
BybitPositionSize(instrument, entry_price, stop_loss, risk_usd) ==
    LET risk_per_unit == Abs(entry_price - stop_loss)
        unit == Micro \div Pow10(QtyPrecision(instrument.qtyStep))
        rounded == RoundHalfEven(risk_usd * Micro, risk_per_unit * unit) * unit
    IN  IF risk_per_unit = 0 THEN NoQty
        ELSE IF rounded < instrument.minOrderQty THEN instrument.minOrderQty
        ELSE rounded

\* AlpacaTrader.calculate_position_size
AlpacaPositionSize(risk_usd, entry_price, stop_loss) ==
    LET risk_per_unit == Abs(entry_price - stop_loss)
        quantity == RoundHalfEven(risk_usd * Micro, risk_per_unit)
    IN  IF risk_per_unit = 0 THEN NoQty
        ELSE IF quantity < AlpacaMinQty THEN AlpacaMinQty
        ELSE quantity

(* ------------------------------- state -------------------------------- *)
VARIABLES
    venue,      \* which of the three servers this behaviour runs
    traderOk,   \* the module-level trader object was constructed
    threaded,   \* the Flask server handles requests on concurrent threads
    served,     \* number of requests accepted so far
    book,       \* venue side: open position legs per listed symbol
    pc,         \* per request: the next step of the handler
    sig,        \* per request: the JSON body received
    amount,     \* per request: the sized quantity
    live,       \* per request: the live price fetched (bybit)
    snap,       \* per request: positions fetched and not yet iterated
    calls,      \* per request: the venue calls it has made, in order
    resp,       \* per request: the HTTP response
    closed      \* history: what the last answered request flattened

vars == <<venue, traderOk, threaded, served, book, pc, sig, amount, live,
          snap, calls, resp, closed>>

Flat == [long |-> 0, short |-> 0]
NoSig == [present |-> FALSE, secretOk |-> FALSE, signal |-> "", symbol |-> "",
          entry |-> 0, sl |-> 0, tp |-> 0, risk_usd |-> 0]
NoResp == [code |-> 0, error |-> "", status |-> "", action |-> "",
           signal |-> "", symbol |-> "", side |-> "", amount |-> 0,
           order_id |-> <<>>, entry_price |-> 0]
\* no close_position has returned True in the request answered last
NoneClosed == [symbol |-> "", orders |-> 0]

\* JSON bodies a client may post: LONG/SHORT alerts for the listed symbols
\* with every combination of prices, CLOSE alerts, alerts with other signal
\* words, alerts for an unknown symbol, alerts with a wrong secret, alerts
\* with an unparsable price, and an empty body
Alerts ==
    [present : {TRUE}, secretOk : {TRUE}, signal : {"LONG", "SHORT"},
     symbol : Listed, entry : Entries \ {Bad}, sl : Stops, tp : Targets,
     risk_usd : Risks]
    \cup
    [present : {TRUE}, secretOk : {TRUE}, signal : {"CLOSE"}, symbol : Listed,
     entry : {0, 13}, sl : {0, 10}, tp : {14}, risk_usd : Risks]
    \cup
    [present : {TRUE}, secretOk : {TRUE}, signal : Signals \ {"LONG", "SHORT", "CLOSE"},
     symbol : {"BTC"}, entry : {13}, sl : {10}, tp : Targets, risk_usd : Risks]
    \cup
    [present : {TRUE}, secretOk : {TRUE}, signal : {"LONG", "CLOSE"},
     symbol : {"XXX"}, entry : {13}, sl : {10}, tp : {14}, risk_usd : Risks]
    \cup
    [present : {TRUE}, secretOk : {FALSE}, signal : Signals, symbol : {"BTC"},
     entry : {0, 13}, sl : {10}, tp : Targets, risk_usd : Risks]
    \cup
    [present : {TRUE}, secretOk : {TRUE}, signal : {"LONG", "CLOSE", "HOLD"},
     symbol : {"BTC"}, entry : {Bad}, sl : {10}, tp : {14}, risk_usd : Risks]
    \cup {NoSig}

\* bodies posted while two requests are in flight together
ThreadedAlerts ==
    {a \in Alerts : /\ a.present /\ a.secretOk
                    /\ a.signal \in {"LONG", "SHORT", "CLOSE"}
                    /\ a.symbol = "BTC"
                    /\ a.entry = 13 /\ a.sl = 10 /\ a.tp = 14}

InitBooks ==
    {b \in [Listed -> [long : {0, Micro}, short : {0, Micro}]] :
        b["ETH"] = [long |-> Micro, short |-> 0]}

Init ==
    /\ venue \in Venues
    /\ traderOk \in BOOLEAN
    /\ (venue # "bybit" => traderOk)
    /\ threaded \in BOOLEAN
    /\ served = 0
    /\ book \in InitBooks
    /\ (venue = "alpaca" => \A s \in Listed : book[s].long = 0 \/ book[s].short = 0)
    /\ pc = [r \in Reqs |-> "idle"]
    /\ sig = [r \in Reqs |-> NoSig]
    /\ amount = [r \in Reqs |-> 0]
    /\ live = [r \in Reqs |-> 0]
    /\ snap = [r \in Reqs |-> <<>>]
    /\ calls = [r \in Reqs |-> <<>>]
    /\ resp = [r \in Reqs |-> NoResp]
    /\ closed = NoneClosed

(* ---------------------------- venue side ------------------------------ *)
LegsOf(symbol) == IF symbol \in Listed THEN book[symbol] ELSE Flat

\* effect of a filled market order on the legs of its symbol: it first
\* reduces the opposite leg and, unless reduce-only, opens the rest
Fill(leg, side, qty, reduceOnly) ==
    IF side = "buy"
    THEN LET c == Min(qty, leg.short)
         IN  [long |-> leg.long + (IF reduceOnly THEN 0 ELSE qty - c),
              short |-> leg.short - c]
    ELSE LET c == Min(qty, leg.long)
         IN  [long |-> leg.long - c,
              short |-> leg.short + (IF reduceOnly THEN 0 ELSE qty - c)]

\* orders the venue can accept: a listed symbol, a positive quantity, and
\* legs within the venue's position limit afterwards
Acceptable(o) ==
    /\ o.symbol \in Listed
    /\ o.qty > 0
    /\ LET l == Fill(LegsOf(o.symbol), o.side, o.qty, o.reduceOnly)
       IN  l.long <= MaxPos /\ l.short <= MaxPos

Order(kind, symbol, side, qty, reduceOnly, price, stopLoss, takeProfit) ==
    [kind |-> kind, symbol |-> symbol, side |-> side, qty |-> qty,
     reduceOnly |-> reduceOnly, price |-> price, stopLoss |-> stopLoss,
     takeProfit |-> takeProfit, ok |-> FALSE, pre |-> Flat]

\* one order submission by request r; a market order that is accepted fills
\* at once, a resting stop or limit order leaves the book alone
Submit(r, o, accepted) ==
    /\ accepted => Acceptable(o)
    /\ calls' = [calls EXCEPT ![r] =
                    Append(@, [o EXCEPT !.ok = accepted, !.pre = LegsOf(o.symbol)])]
    /\ book' = IF accepted /\ o.kind \in {"close", "entry"}
               THEN [book EXCEPT ![o.symbol] = Fill(@, o.side, o.qty, o.reduceOnly)]
               ELSE book

\* one venue call of request r that is no order: kind names what is asked
Query(r, kind, symbol, answered) ==
    calls' = [calls EXCEPT ![r] =
                Append(@, [Order(kind, symbol, "", 0, FALSE, 0, 0, 0)
                             EXCEPT !.ok = answered, !.pre = LegsOf(symbol)])]

OrderKinds == {"close", "entry", "sl", "tp"}

\* positions of one symbol as OKX / Bybit list them: one entry per leg,
\* an empty leg listed with size 0
LegList(symbol) ==
    <<[symbol |-> symbol, side |-> "long", qty |-> LegsOf(symbol).long],
      [symbol |-> symbol, side |-> "short", qty |-> LegsOf(symbol).short]>>

\* all positions of the account as Alpaca lists them: signed quantity, only
\* symbols with a position
AlpacaEntryOf(symbol) ==
    LET net == book[symbol].long - book[symbol].short
    IN  IF net = 0 THEN <<>>
        ELSE <<[symbol |-> symbol, side |-> IF net > 0 THEN "long" ELSE "short",
                qty |-> net]>>
AlpacaPositions == AlpacaEntryOf("ETH") \o AlpacaEntryOf("BTC")

(* ------------------------------ responses ----------------------------- *)
ErrorResp(code, msg) == [NoResp EXCEPT !.code = code, !.error = msg]
ClosedResp(symbol) ==
    [NoResp EXCEPT !.code = 200, !.status = "success", !.action = "closed",
                   !.symbol = symbol]

\* the reference the venue returned for the n-th order of request r
OrderId(r, n) == <<r, n>>

Reply(r, response) ==
    /\ pc' = [pc EXCEPT ![r] = "done"]
    /\ resp' = [resp EXCEPT ![r] = response]

Goto(r, label) ==
    /\ pc' = [pc EXCEPT ![r] = label]
    /\ UNCHANGED resp

\* a faulty mapping: the protective leg on the side of the entry
OppositeSide_Same(side) == IF side = "sell" THEN "sell" ELSE "buy"

\* sl_side / tp_side of place_market_order
OppositeSide(side) == IF side = "buy" THEN "sell" ELSE "buy"

(* --------------------------- request arrival -------------------------- *)
\* a worker takes request r with body a: without threads one request at a
\* time, with threads any idle worker
Arrive(r, a) ==
    /\ pc[r] = "idle"
    /\ served < MaxSignals
    /\ IF threaded THEN a \in ThreadedAlerts
       ELSE r = "r1" /\ \A q \in Reqs : pc[q] = "idle"
    /\ a \in Alerts
    /\ sig' = [sig EXCEPT ![r] = a]
    /\ served' = served + 1

Unparsable(a) == Bad \in {a.entry, a.sl, a.tp, a.risk_usd}

\* okx webhook(), up to the first venue call: the early response, or NoResp
OkxReject(a) ==
    IF ~a.present THEN ErrorResp(400, "No data received")
    ELSE IF ~a.secretOk THEN ErrorResp(403, "Invalid secret")
    ELSE IF Unparsable(a) THEN ErrorResp(500, "ValueError")
    ELSE IF a.signal \notin {"LONG", "SHORT", "CLOSE"}
         THEN ErrorResp(400, "Invalid signal")
    ELSE NoResp

OkxWebhook(r) ==
    /\ venue = "okx"
    /\ \E a \in Alerts :
        /\ Arrive(r, a)
        /\ IF OkxReject(a) # NoResp THEN Reply(r, OkxReject(a))
           ELSE IF a.signal = "CLOSE" THEN Goto(r, "close_fetch")
           ELSE Goto(r, "size")
    /\ UNCHANGED <<venue, traderOk, threaded, closed, book, amount, live, snap, calls>>

\* bybit webhook(), up to the call of place_order
BybitReject(a, trader) ==
    IF ~a.present THEN ErrorResp(400, "No data")
    ELSE IF ~trader THEN ErrorResp(500, "AttributeError")
    ELSE IF ~a.secretOk THEN ErrorResp(401, "Unauthorized")
    ELSE IF Unparsable(a) THEN ErrorResp(500, "ValueError")
    ELSE IF a.signal = "" \/ a.symbol = "" \/ a.entry = 0 \/ a.sl = 0 \/ a.tp = 0
         THEN ErrorResp(400, "Missing fields")
    ELSE IF a.signal \notin {"LONG", "SHORT"} THEN ErrorResp(400, "Invalid signal")
    ELSE NoResp

BybitWebhook(r) ==
    /\ venue = "bybit"
    /\ \E a \in Alerts :
        /\ Arrive(r, a)
        /\ IF BybitReject(a, traderOk) # NoResp THEN Reply(r, BybitReject(a, traderOk))
           ELSE Goto(r, "price")
    /\ UNCHANGED <<venue, traderOk, threaded, closed, book, amount, live, snap, calls>>

\* alpaca webhook(), up to the first venue call; sizing makes no venue call
AlpacaReject(a) ==
    IF ~a.present THEN ErrorResp(400, "No data")
    ELSE IF ~a.secretOk THEN ErrorResp(403, "Invalid secret")
    ELSE IF Unparsable(a) THEN ErrorResp(500, "ValueError")
    ELSE IF a.signal \notin {"LONG", "SHORT", "CLOSE", "BUY", "SELL"}
         THEN ErrorResp(400, "Invalid signal")
    ELSE NoResp

AlpacaWebhook(r) ==
    /\ venue = "alpaca"
    /\ \E a \in Alerts :
        /\ Arrive(r, a)
        /\ IF AlpacaReject(a) # NoResp
           THEN Reply(r, AlpacaReject(a)) /\ UNCHANGED amount
           ELSE IF a.signal = "CLOSE"
           THEN Goto(r, "close_fetch") /\ UNCHANGED amount
           ELSE /\ Goto(r, "entry")
                /\ amount' = [amount EXCEPT ![r] =
                                AlpacaPositionSize(a.risk_usd, a.entry, a.sl)]
    /\ UNCHANGED <<venue, traderOk, threaded, closed, book, live, snap, calls>>

\* close_position returned True in request r: the symbol and the number of
\* closing orders it sent
ClosedBy(r) ==
    IF sig[r].signal = "CLOSE" /\ resp[r].code = 200
    THEN [symbol |-> sig[r].symbol, orders |-> Len(calls[r]) - 1]
    ELSE NoneClosed

\* the response has been sent and the worker is free again; with threads
\* every worker is followed through one request only
Finish(r) ==
    /\ pc[r] = "done"
    /\ ~threaded
    /\ closed' = ClosedBy(r)
    /\ pc' = [pc EXCEPT ![r] = "idle"]
    /\ sig' = [sig EXCEPT ![r] = NoSig]
    /\ amount' = [amount EXCEPT ![r] = 0]
    /\ live' = [live EXCEPT ![r] = 0]
    /\ snap' = [snap EXCEPT ![r] = <<>>]
    /\ calls' = [calls EXCEPT ![r] = <<>>]
    /\ resp' = [resp EXCEPT ![r] = NoResp]
    /\ UNCHANGED <<venue, traderOk, threaded, served, book>>

(* -------------------------------- OKX --------------------------------- *)
\* a faulty mapping: the signal, upper-cased on arrival, compared with the
\* lower-case word
OkxSide_Lower(signal) == IF signal = "long" THEN "buy" ELSE "sell"

\* signal -> order side, okx webhook()
OkxSide(signal) == IF signal = "LONG" THEN "buy" ELSE "sell"

OkxSuccess(r) ==
    [NoResp EXCEPT !.code = 200, !.status = "success", !.signal = sig[r].signal,
                   !.symbol = sig[r].symbol, !.side = OkxSide(sig[r].signal),
                   !.amount = amount[r], !.order_id = OrderId(r, 2)]

\* calculate_position_size: load_markets() returns or raises
OkxSize(r) ==
    /\ venue = "okx" /\ pc[r] = "size"
    /\ \E loaded \in BOOLEAN :
        /\ Query(r, "markets", sig[r].symbol, loaded)
        /\ amount' = [amount EXCEPT ![r] =
            IF loaded
            THEN OkxPositionSize(OkxMarkets(sig[r].symbol), sig[r].risk_usd,
                                 sig[r].entry, sig[r].sl)
            ELSE OkxDefaultQty]
    /\ Goto(r, "entry")
    /\ UNCHANGED <<venue, traderOk, threaded, closed, served, book, sig, live, snap>>

\* a faulty routing: the entry call inside its own try block, its failure
\* logged and the protective legs attempted all the same
OkxAfterEntry_Unguarded(accepted, sl, tp) ==
    IF sl # 0 THEN "sl" ELSE IF tp # 0 THEN "tp" ELSE IF accepted THEN "done" ELSE "fail"

\* a faulty routing: the stop-loss call without its own try block, its
\* failure leaving place_market_order through the outer handler
OkxAfterStop_Fatal(accepted, tp) ==
    IF ~accepted THEN "fail" ELSE IF tp # 0 THEN "tp" ELSE "done"

\* a faulty routing: the stop-loss attempted whether or not the signal has a
\* stop (`is not None` on a price that was defaulted to 0)
OkxAfterEntry_AlwaysStop(accepted, sl, tp) == IF ~accepted THEN "fail" ELSE "sl"

\* a faulty routing: a refused entry order is submitted again
OkxAfterEntry_Retry(accepted, sl, tp) ==
    IF ~accepted THEN "entry"
    ELSE IF sl # 0 THEN "sl" ELSE IF tp # 0 THEN "tp" ELSE "done"

\* where place_market_order goes after the entry create_market_order: an
\* exception leaves through the outer handler (return None)
OkxAfterEntry(accepted, sl, tp) ==
    IF ~accepted THEN "fail"
    ELSE IF sl # 0 THEN "sl" ELSE IF tp # 0 THEN "tp" ELSE "done"
\* ... and after the stop-loss attempt, whatever its outcome
OkxAfterStop(accepted, tp) == IF tp # 0 THEN "tp" ELSE "done"

\* webhook(): `if result:` after place_market_order returned
OkxContinue(r, label) ==
    IF label = "done" THEN Reply(r, OkxSuccess(r))
    ELSE IF label = "fail" THEN Reply(r, ErrorResp(500, "Order placement failed"))
    ELSE Goto(r, label)

\* place_market_order: the entry create_market_order
OkxEntry(r) ==
    /\ venue = "okx" /\ pc[r] = "entry"
    /\ \E accepted \in BOOLEAN :
        /\ Submit(r, Order("entry", sig[r].symbol, OkxSide(sig[r].signal),
                           amount[r], FALSE, 0, 0, 0), accepted)
        /\ OkxContinue(r, OkxAfterEntry(accepted, sig[r].sl, sig[r].tp))
    /\ UNCHANGED <<venue, traderOk, threaded, closed, served, sig, amount, live, snap>>

\* place_market_order: the stop_market order, failure caught and logged
OkxStopLoss(r) ==
    /\ venue = "okx" /\ pc[r] = "sl"
    /\ \E accepted \in BOOLEAN :
        /\ Submit(r, Order("sl", sig[r].symbol, OppositeSide(OkxSide(sig[r].signal)),
                            amount[r], TRUE, sig[r].sl, 0, 0), accepted)
        /\ OkxContinue(r, OkxAfterStop(accepted, sig[r].tp))
    /\ UNCHANGED <<venue, traderOk, threaded, closed, served, sig, amount, live, snap>>

\* place_market_order: the limit take-profit order, failure caught and logged
OkxTakeProfit(r) ==
    /\ venue = "okx" /\ pc[r] = "tp"
    /\ \E accepted \in BOOLEAN :
        Submit(r, Order("tp", sig[r].symbol, OppositeSide(OkxSide(sig[r].signal)),
                        amount[r], TRUE, sig[r].tp, 0, 0), accepted)
    /\ Reply(r, OkxSuccess(r))
    /\ UNCHANGED <<venue, traderOk, threaded, closed, served, sig, amount, live, snap>>

\* close_position: side of the order that closes a listed position
CloseSide(position) == IF position.side = "long" THEN "sell" ELSE "buy"

\* close_position: the order sent for one position of the list
OkxCloseOrder(position) ==
    Order("close", position.symbol, CloseSide(position), position.qty, TRUE, 0, 0, 0)

\* a faulty loop: the size test left out, every listed entry gets an order
SkipEmpty_All(positions) == positions

\* the loops over fetched positions: entries of size 0 are passed over
\* (`if contracts > 0`, `if pos_size > 0`)
RECURSIVE SkipEmpty(_)
SkipEmpty(positions) ==
    IF positions = <<>> THEN <<>>
    ELSE IF Head(positions).qty > 0 THEN positions
    ELSE SkipEmpty(Tail(positions))

\* close_position: what follows once the positions still to close are known:
\* the next closing order, or `return True`
OkxCloseNext(r, rest) ==
    /\ snap' = [snap EXCEPT ![r] = rest]
    /\ IF rest = <<>> THEN Reply(r, ClosedResp(sig[r].symbol))
       ELSE Goto(r, "close_order")

OkxCloseFailed(r) ==
    /\ UNCHANGED snap
    /\ Reply(r, ErrorResp(500, "Failed to close position"))

\* close_position: fetch_positions([symbol]) returns or raises
OkxCloseFetch(r) ==
    /\ venue = "okx" /\ pc[r] = "close_fetch"
    /\ \E fetched \in BOOLEAN :
        /\ fetched => sig[r].symbol \in Listed
        /\ Query(r, "positions", sig[r].symbol, fetched)
        /\ IF fetched THEN OkxCloseNext(r, SkipEmpty(LegList(sig[r].symbol)))
           ELSE OkxCloseFailed(r)
    /\ UNCHANGED <<venue, traderOk, threaded, closed, served, book, sig, amount, live>>

\* close_position: the closing order of the next open position
OkxCloseStep(r) ==
    /\ venue = "okx" /\ pc[r] = "close_order"
    /\ \E accepted \in BOOLEAN :
        /\ Submit(r, OkxCloseOrder(Head(snap[r])), accepted)
        /\ IF accepted THEN OkxCloseNext(r, SkipEmpty(Tail(snap[r])))
           ELSE OkxCloseFailed(r)
    /\ UNCHANGED <<venue, traderOk, threaded, closed, served, sig, amount, live>>

(* ------------------------------- Bybit -------------------------------- *)
BybitSide(signal) == IF signal = "LONG" THEN "buy" ELSE "sell"

BybitSuccess(r) ==
    [NoResp EXCEPT !.code = 200, !.status = "success", !.signal = sig[r].signal,
                   !.symbol = sig[r].symbol, !.amount = amount[r],
                   !.entry_price = live[r]]

BybitFailed == ErrorResp(500, "Order failed")

\* place_order: get_current_price returns a price or None
BybitPrice(r) ==
    /\ venue = "bybit" /\ pc[r] = "price"
    /\ \/ /\ sig[r].symbol \in Listed
          /\ \E p \in LivePrices : live' = [live EXCEPT ![r] = p]
          /\ Query(r, "ticker", sig[r].symbol, TRUE)
          /\ Goto(r, "size")
       \/ /\ UNCHANGED live
          /\ Query(r, "ticker", sig[r].symbol, FALSE)
          /\ Reply(r, BybitFailed)
    /\ UNCHANGED <<venue, traderOk, threaded, closed, served, book, sig, amount, snap>>

\* a faulty routing: the test of the sizing result left out
BybitAfterSize_Unchecked(position_size) == "flat_fetch"

\* place_order after sizing: `if not position_size: return None`
BybitAfterSize(position_size) == IF position_size = NoQty THEN "fail" ELSE "flat_fetch"

\* place_order: calculate_position_size, get_instruments_info answers with
\* retCode 0, or with an error / an exception (None)
BybitSize(r) ==
    /\ venue = "bybit" /\ pc[r] = "size"
    /\ \E found \in BOOLEAN :
        /\ found => sig[r].symbol \in Listed
        /\ Query(r, "instrument", sig[r].symbol, found)
        /\ LET size == IF found
                       THEN BybitPositionSize(BybitInstruments(sig[r].symbol),
                                              live[r], sig[r].sl, sig[r].risk_usd)
                       ELSE NoQty
           IN  /\ amount' = [amount EXCEPT ![r] = size]
               /\ IF BybitAfterSize(size) = "fail" THEN Reply(r, BybitFailed)
                  ELSE Goto(r, BybitAfterSize(size))
    /\ UNCHANGED <<venue, traderOk, threaded, closed, served, book, sig, live, snap>>

\* place_order: where the flatten block goes after get_positions: "ok" is
\* retCode 0, "error" another retCode, "raise" an exception (caught, logged)
BybitAfterFetch(outcome, rest) ==
    IF outcome = "ok" /\ rest # <<>> THEN "flat_order" ELSE "entry"

BybitFlatFetch(r) ==
    /\ venue = "bybit" /\ pc[r] = "flat_fetch"
    /\ \E outcome \in {"ok", "error", "raise"} :
        /\ outcome = "ok" => sig[r].symbol \in Listed
        /\ Query(r, "positions", sig[r].symbol, outcome = "ok")
        /\ LET rest == IF outcome = "ok" THEN SkipEmpty(LegList(sig[r].symbol))
                       ELSE <<>>
           IN  /\ snap' = [snap EXCEPT ![r] = rest]
               /\ Goto(r, BybitAfterFetch(outcome, rest))
    /\ UNCHANGED <<venue, traderOk, threaded, closed, served, book, sig, amount, live>>

BybitCloseOrder(position) ==
    Order("close", position.symbol, CloseSide(position), position.qty, TRUE, 0, 0, 0)

\* place_order: where the flatten loop goes after a closing place_order: an
\* exception leaves the loop through `except` and goes on to the entry, any
\* returned answer goes on with the loop
BybitAfterClose(outcome, rest) ==
    IF outcome = "raise" \/ rest = <<>> THEN "entry" ELSE "flat_order"

\* place_order: the closing order of the next open position
BybitFlatStep(r) ==
    /\ venue = "bybit" /\ pc[r] = "flat_order"
    /\ \E outcome \in {"ok", "error", "raise"} :
        /\ Submit(r, BybitCloseOrder(Head(snap[r])), outcome = "ok")
        /\ LET rest == SkipEmpty(Tail(snap[r]))
           IN  /\ snap' = [snap EXCEPT ![r] = rest]
               /\ Goto(r, BybitAfterClose(outcome, rest))
    /\ UNCHANGED <<venue, traderOk, threaded, closed, served, sig, amount, live>>

\* place_order: the entry order with attached stopLoss and takeProfit;
\* retCode 0, another retCode, or an exception.  qty=str(position_size):
\* str() of a float is its shortest repr and parses back to the same float
BybitEntry(r) ==
    /\ venue = "bybit" /\ pc[r] = "entry"
    /\ \E outcome \in {"ok", "error", "raise"} :
        /\ Submit(r, Order("entry", sig[r].symbol, BybitSide(sig[r].signal),
                           amount[r], FALSE, 0, sig[r].sl, sig[r].tp),
                  outcome = "ok")
        /\ IF outcome = "ok" THEN Reply(r, BybitSuccess(r))
           ELSE Reply(r, BybitFailed)
    /\ UNCHANGED <<venue, traderOk, threaded, closed, served, sig, amount, live, snap>>

(* ------------------------------- Alpaca ------------------------------- *)
AlpacaSide(signal) == IF signal \in {"LONG", "BUY"} THEN "buy" ELSE "sell"

AlpacaSuccess(r) ==
    [NoResp EXCEPT !.code = 200, !.status = "success", !.signal = sig[r].signal,
                   !.symbol = sig[r].symbol, !.amount = amount[r],
                   !.order_id = OrderId(r, 1)]

\* a faulty submission: the stop and the target handed on to the venue with
\* the entry (a bracket order)
AlpacaEntry_Bracket(r) ==
    /\ venue = "alpaca" /\ pc[r] = "entry"
    /\ \E accepted \in BOOLEAN :
        /\ Submit(r, Order("entry", sig[r].symbol, AlpacaSide(sig[r].signal),
                           amount[r], FALSE, 0, sig[r].sl, sig[r].tp), accepted)
        /\ IF accepted THEN Reply(r, AlpacaSuccess(r))
           ELSE Reply(r, ErrorResp(500, "Order failed"))
    /\ UNCHANGED <<venue, traderOk, threaded, closed, served, sig, amount, live, snap>>

\* place_market_order: the only order it submits
AlpacaEntry(r) ==
    /\ venue = "alpaca" /\ pc[r] = "entry"
    /\ \E accepted \in BOOLEAN :
        /\ Submit(r, Order("entry", sig[r].symbol, AlpacaSide(sig[r].signal),
                           amount[r], FALSE, 0, 0, 0), accepted)
        /\ IF accepted THEN Reply(r, AlpacaSuccess(r))
           ELSE Reply(r, ErrorResp(500, "Order failed"))
    /\ UNCHANGED <<venue, traderOk, threaded, closed, served, sig, amount, live, snap>>

AlpacaClosed == [NoResp EXCEPT !.code = 200, !.status = "success", !.action = "closed"]
AlpacaCloseFailed == ErrorResp(500, "Failed to close")

\* close_position: the order sent for the position of the symbol
AlpacaCloseOrder(position) ==
    Order("close", position.symbol, IF position.qty > 0 THEN "sell" ELSE "buy",
          Abs(position.qty), FALSE, 0, 0, 0)

\* close_position: the result of the loop when no position matched
AlpacaNoneFound == AlpacaCloseFailed

\* close_position: the loop passes over the positions of other symbols
RECURSIVE SkipOthers(_, _)
SkipOthers(positions, symbol) ==
    IF positions = <<>> THEN <<>>
    ELSE IF Head(positions).symbol = symbol THEN positions
    ELSE SkipOthers(Tail(positions), symbol)

\* close_position: get_all_positions returns or raises
AlpacaCloseFetch(r) ==
    /\ venue = "alpaca" /\ pc[r] = "close_fetch"
    /\ \E fetched \in BOOLEAN :
        /\ Query(r, "positions", sig[r].symbol, fetched)
        /\ IF fetched
           THEN LET rest == SkipOthers(AlpacaPositions, sig[r].symbol)
                IN  /\ snap' = [snap EXCEPT ![r] = rest]
                    /\ IF rest = <<>> THEN Reply(r, AlpacaNoneFound)
                       ELSE Goto(r, "close_order")
           ELSE UNCHANGED snap /\ Reply(r, AlpacaCloseFailed)
    /\ UNCHANGED <<venue, traderOk, threaded, closed, served, book, sig, amount, live>>

\* close_position: the closing order of the first position of the symbol,
\* then `return True`
AlpacaCloseStep(r) ==
    /\ venue = "alpaca" /\ pc[r] = "close_order"
    /\ \E accepted \in BOOLEAN :
        /\ Submit(r, AlpacaCloseOrder(Head(snap[r])), accepted)
        /\ UNCHANGED snap
        /\ IF accepted THEN Reply(r, AlpacaClosed)
           ELSE Reply(r, AlpacaCloseFailed)
    /\ UNCHANGED <<venue, traderOk, threaded, closed, served, sig, amount, live>>

(* --------------------------- specification ---------------------------- *)
Next ==
    \/ \E r \in Reqs : OkxWebhook(r)
    \/ \E r \in Reqs : OkxSize(r)
    \/ \E r \in Reqs : OkxEntry(r)
    \/ \E r \in Reqs : OkxStopLoss(r)
    \/ \E r \in Reqs : OkxTakeProfit(r)
    \/ \E r \in Reqs : OkxCloseFetch(r)
    \/ \E r \in Reqs : OkxCloseStep(r)
    \/ \E r \in Reqs : BybitWebhook(r)
    \/ \E r \in Reqs : BybitPrice(r)
    \/ \E r \in Reqs : BybitSize(r)
    \/ \E r \in Reqs : BybitFlatFetch(r)
    \/ \E r \in Reqs : BybitFlatStep(r)
    \/ \E r \in Reqs : BybitEntry(r)
    \/ \E r \in Reqs : AlpacaWebhook(r)
    \/ \E r \in Reqs : AlpacaEntry(r)
    \/ \E r \in Reqs : AlpacaCloseFetch(r)
    \/ \E r \in Reqs : AlpacaCloseStep(r)
    \/ \E r \in Reqs : Finish(r)

Spec == Init /\ [][Next]_vars

(* ------------------------------ properties --------------------------- *)
Log(r) == calls[r]
Idx(r) == DOMAIN calls[r]
HasCall(r, kind) == \E i \in Idx(r) : Log(r)[i].kind = kind
HasOrder(r) == \E i \in Idx(r) : Log(r)[i].kind \in OrderKinds
Authentic(r) == sig[r].present /\ sig[r].secretOk
IsTrade(r) == Authentic(r) /\ sig[r].signal \in {"LONG", "SHORT"}
IsClose(r) == Authentic(r) /\ sig[r].signal = "CLOSE"
Done(r) == pc[r] = "done"
EntryFilled(r) == \E i \in Idx(r) : Log(r)[i].kind = "entry" /\ Log(r)[i].ok

\* C1: an entry order is submitted only when no position of its symbol is
\* open: every entry order of every request found the symbol flat.
C1_EntryOnlyWhenFlat ==
    \A r \in Reqs : \A i \in Idx(r) :
        Log(r)[i].kind = "entry" => Log(r)[i].pre = Flat

\* the request read the positions of its symbol and found none
SawFlat(r) ==
    \E i \in Idx(r) :
        Log(r)[i].kind = "positions" /\ Log(r)[i].ok /\ Log(r)[i].pre = Flat

Exposure(symbol, side) ==
    IF side = "buy" THEN LegsOf(symbol).long ELSE LegsOf(symbol).short

\* C2: no two requests for one symbol both read "no position" and both
\* open an entry, so that the exposure of both entries is open together.
C2_NoDoubleEntry ==
    \A r1, r2 \in Reqs :
        ( /\ r1 # r2
          /\ IsTrade(r1) /\ IsTrade(r2)
          /\ sig[r1].symbol = sig[r2].symbol /\ sig[r1].signal = sig[r2].signal
          /\ SawFlat(r1) /\ SawFlat(r2)
          /\ EntryFilled(r1) /\ EntryFilled(r2) )
        => Exposure(sig[r1].symbol, BybitSide(sig[r1].signal))
             < amount[r1] + amount[r2]

\* the request has made a venue call and has not answered yet
MidBracket(r) == pc[r] \notin {"idle", "done"} /\ calls[r] # <<>>

\* C3: at most one request per symbol is between its first venue call and
\* its response.
C3_OneInFlightPerSymbol ==
    \A r1, r2 \in Reqs :
        (r1 # r2 /\ MidBracket(r1) /\ MidBracket(r2))
        => sig[r1].symbol # sig[r2].symbol

\* C4: a LONG/SHORT signal whose entry price equals its stop price submits
\* no order at all and does not end in success.
C4_DegenerateStopNoOrder ==
    \A r \in Reqs :
        (IsTrade(r) /\ sig[r].entry = sig[r].sl)
        => ~HasOrder(r) /\ (Done(r) => resp[r].code # 200)

\* fetching the positions failed, or a closing order was refused or raised
FlattenFailed(r) ==
    \E i \in Idx(r) :
        Log(r)[i].kind \in {"positions", "close"} /\ ~Log(r)[i].ok

\* C5: when flattening fails for a LONG/SHORT signal, no entry order is
\* submitted and the request ends with HTTP 500.
C5_FlattenFailureAborts ==
    \A r \in Reqs :
        (IsTrade(r) /\ FlattenFailed(r))
        => ~HasCall(r, "entry") /\ (Done(r) => resp[r].code = 500)

\* C6: an entry order that is refused or raises is the last venue call of
\* its request: no stop-loss and no take-profit order follows, and the
\* request has ended with HTTP 500.
C6_FailedEntryNoLegs ==
    \A r \in Reqs : \A i \in Idx(r) :
        (Log(r)[i].kind = "entry" /\ ~Log(r)[i].ok)
        => /\ i = Len(Log(r))
           /\ ~HasCall(r, "sl") /\ ~HasCall(r, "tp")
           /\ Done(r) /\ resp[r].code = 500

C6_Witness ==
    \E r \in Reqs :
        /\ venue = "okx" /\ Done(r) /\ sig[r].sl # 0 /\ sig[r].tp # 0
        /\ \E i \in Idx(r) : Log(r)[i].kind = "entry" /\ ~Log(r)[i].ok

\* C7: after a filled entry a failed stop-loss order does not abort the
\* bracket (the take-profit of a signal that has a target is attempted next
\* and the request ends in success), and a failed take-profit order does not
\* turn the outcome into a failure either.
C7_ProtectiveFailureNonFatal ==
    \A r \in Reqs : \A i \in Idx(r) :
        /\ (Log(r)[i].kind = "sl" /\ ~Log(r)[i].ok)
           => /\ EntryFilled(r)
              /\ IF Done(r)
                 THEN /\ resp[r].code = 200
                      /\ sig[r].tp # 0 =>
                           \E j \in Idx(r) : j > i /\ Log(r)[j].kind = "tp"
                 ELSE pc[r] = "tp"
        /\ (Log(r)[i].kind = "tp" /\ ~Log(r)[i].ok)
           => EntryFilled(r) /\ Done(r) /\ resp[r].code = 200

C7_Witness ==
    \E r \in Reqs :
        /\ Done(r) /\ resp[r].code = 200
        /\ \E i, j \in Idx(r) :
            /\ Log(r)[i].kind = "sl" /\ ~Log(r)[i].ok
            /\ Log(r)[j].kind = "tp" /\ j > i

\* what the caller sees, the venue's order reference left out (two orders
\* never share one)
CallerView(r) == [resp[r] EXCEPT !.order_id = <<>>]
\* which protective legs the venue holds for the request
Protection(r) ==
    [stop |-> \E i \in Idx(r) : Log(r)[i].kind = "sl" /\ Log(r)[i].ok,
     target |-> \E i \in Idx(r) : Log(r)[i].kind = "tp" /\ Log(r)[i].ok]

\* C8: two successful brackets for the same signal and quantity that differ
\* in which protective legs were placed return different results.
C8_ProtectionVisible ==
    \A r1, r2 \in Reqs :
        ( /\ Done(r1) /\ Done(r2)
          /\ IsTrade(r1) /\ sig[r1] = sig[r2] /\ amount[r1] = amount[r2]
          /\ resp[r1].code = 200 /\ resp[r2].code = 200
          /\ Protection(r1) # Protection(r2) )
        => CallerView(r1) # CallerView(r2)

\* C9: a CLOSE signal for a listed symbol without a position, none of whose
\* venue calls failed, ends with HTTP 200 and has submitted no order.
C9_CloseNothingSucceeds ==
    \A r \in Reqs :
        ( /\ Done(r) /\ IsClose(r) /\ ~Unparsable(sig[r])
          /\ sig[r].symbol \in Listed
          /\ LegsOf(sig[r].symbol) = Flat
          /\ \A i \in Idx(r) : Log(r)[i].ok /\ Log(r)[i].pre = Flat )
        => resp[r].code = 200 /\ ~HasOrder(r)

Closes(r, side) ==
    {i \in Idx(r) : Log(r)[i].kind = "close" /\ Log(r)[i].side = side}

\* C10: every closing order is a reduce-only order for the whole size of
\* the opposite leg, and a CLOSE that succeeded has sent exactly one such
\* order per open leg it fetched and none for an empty leg.
C10_FlattenEveryPosition ==
    \A r \in Reqs :
        /\ \A i \in Idx(r) :
             Log(r)[i].kind = "close"
             => /\ Log(r)[i].reduceOnly
                /\ Log(r)[i].qty > 0
        /\ (IsClose(r) /\ Done(r) /\ resp[r].code = 200)
           => \A p \in Idx(r) :
                Log(r)[p].kind = "positions"
                => /\ Cardinality(Closes(r, "sell")) =
                        (IF Log(r)[p].pre.long > 0 THEN 1 ELSE 0)
                   /\ Cardinality(Closes(r, "buy")) =
                        (IF Log(r)[p].pre.short > 0 THEN 1 ELSE 0)
                   /\ \A i \in Closes(r, "sell") : Log(r)[i].qty = Log(r)[p].pre.long
                   /\ \A i \in Closes(r, "buy") : Log(r)[i].qty = Log(r)[p].pre.short

\* C11: close_position called again for the symbol it has just flattened
\* with success, nothing having been filled in between (requests served one
\* after the other), finds no position to close and submits no order.
C11_SecondCloseClosesNothing ==
    \A r \in Reqs :
        (~threaded /\ IsClose(r) /\ sig[r].symbol = closed.symbol)
        => \A i \in Idx(r) :
             /\ Log(r)[i].kind \notin OrderKinds
             /\ Log(r)[i].pre = Flat

\* the first call closed both legs, the second one has fetched the positions
\* and returned
C11_Witness ==
    \E r \in Reqs :
        /\ ~threaded /\ IsClose(r) /\ Done(r)
        /\ sig[r].symbol = closed.symbol /\ closed.orders = 2
        /\ \E i \in Idx(r) : Log(r)[i].kind = "positions" /\ Log(r)[i].ok

\* the entry orders request r has submitted
EntryOrders(r) == {i \in Idx(r) : Log(r)[i].kind = "entry"}

\* quantity step and minimum order quantity the venue declares for a listed
\* symbol (for alpaca, which reads none, the ones its sizer is written for)
VenueStep(symbol) ==
    IF venue = "okx" THEN OkxMarkets(symbol).lot
    ELSE IF venue = "bybit" THEN BybitInstruments(symbol).qtyStep
    ELSE 1
VenueMinQty(symbol) ==
    IF venue = "okx" THEN OkxMarkets(symbol).lot
    ELSE IF venue = "bybit" THEN BybitInstruments(symbol).minOrderQty
    ELSE AlpacaMinQty

\* C12: every quantity a sizer returned that is sent in an entry order for a
\* listed symbol is at least the symbol's minimum order quantity and a
\* multiple of its quantity step.
C12_QuantityOnGrid ==
    \A r \in Reqs : \A i \in EntryOrders(r) :
        (Log(r)[i].symbol \in Listed /\ Log(r)[i].qty # NoQty)
        => /\ Log(r)[i].qty >= VenueMinQty(Log(r)[i].symbol)
           /\ Log(r)[i].qty % VenueStep(Log(r)[i].symbol) = 0

\* the price difference the sizer of request r divided the risk by
RiskPerUnit(r) ==
    Abs((IF venue = "bybit" THEN live[r] ELSE sig[r].entry) - sig[r].sl)
\* the quantity a sizer raises a smaller result to
SizerFloor(symbol) ==
    IF venue = "okx" THEN OkxDefaultQty
    ELSE IF venue = "bybit" THEN BybitInstruments(symbol).minOrderQty
    ELSE AlpacaMinQty
\* units of the underlying per 1.0 of quantity, inverted (1/contractSize)
PerUnit(symbol) == IF venue = "okx" THEN OkxMarkets(symbol).csInv ELSE 1

\* C13: an entry quantity that was not raised to the minimum loses at most
\* the risk budget at the stop: quantity * contractSize * |entry - stop|
\* <= risk_usd.
C13_SizingRoundsDown ==
    \A r \in Reqs : \A i \in EntryOrders(r) :
        (Log(r)[i].symbol \in Listed /\ Log(r)[i].qty # SizerFloor(Log(r)[i].symbol))
        => Log(r)[i].qty * RiskPerUnit(r)
             <= sig[r].risk_usd * Micro * PerUnit(Log(r)[i].symbol)

\* C14: a request whose secret does not match is answered with 401 or 403
\* and makes no venue call, whatever else it carries and whether or not the
\* trader object was constructed.
C14_SecretMismatchRejected ==
    \A r \in Reqs :
        (sig[r].present /\ ~sig[r].secretOk)
        => /\ calls[r] = <<>>
           /\ Done(r) => resp[r].code \in {401, 403}

\* C15: an authenticated signal whose direction is none of LONG, SHORT,
\* CLOSE (its prices being parsable and the trader constructed) makes no
\* venue call and is answered with HTTP 400.
C15_InvalidDirectionRejected ==
    \A r \in Reqs :
        ( /\ Authentic(r) /\ traderOk /\ ~Unparsable(sig[r])
          /\ sig[r].signal \notin {"LONG", "SHORT", "CLOSE"} )
        => /\ calls[r] = <<>>
           /\ Done(r) => resp[r].code = 400

\* a price field of the body is absent (and read as the default 0)
MissingPrice(a) == a.entry = 0 \/ a.sl = 0 \/ a.tp = 0

\* C16: an authenticated LONG/SHORT signal with a missing entry, stop or
\* target price makes no venue call and is answered with HTTP 400.
C16_MissingPriceRejected ==
    \A r \in Reqs :
        (IsTrade(r) /\ traderOk /\ ~Unparsable(sig[r]) /\ MissingPrice(sig[r]))
        => /\ calls[r] = <<>>
           /\ Done(r) => resp[r].code = 400

\* position of a venue call in the bracket: flatten, size, enter, stop-loss,
\* take-profit
StepRank(kind) ==
    IF kind \in {"positions", "close"} THEN 1
    ELSE IF kind \in {"markets", "ticker", "instrument"} THEN 2
    ELSE IF kind = "entry" THEN 3
    ELSE IF kind = "sl" THEN 4
    ELSE 5

\* C17: the venue calls of a LONG/SHORT signal come in the order flatten,
\* size, enter, stop-loss, take-profit, and every sizing call is preceded by
\* the fetch of the positions to flatten.
C17_StepOrder ==
    \A r \in Reqs :
        IsTrade(r)
        => /\ \A i, j \in Idx(r) :
                i < j => StepRank(Log(r)[i].kind) <= StepRank(Log(r)[j].kind)
           /\ \A i \in Idx(r) :
                StepRank(Log(r)[i].kind) = 2
                => \E j \in Idx(r) : j < i /\ Log(r)[j].kind = "positions"

\* the orders of one kind request r has submitted
OrdersOf(r, kind) == {i \in Idx(r) : Log(r)[i].kind = kind}

\* C18: a signal submits each of its entry, stop-loss and take-profit orders
\* at most once, a refused order being the only one of its kind, and once the
\* request has answered it makes no further venue call.
C18_NoRetries ==
    /\ [](\A r \in Reqs : \A kind \in {"entry", "sl", "tp"} :
            Cardinality(OrdersOf(r, kind)) <= 1)
    /\ [][\A r \in Reqs :
            pc[r] = "done" => Len(calls'[r]) <= Len(calls[r])]_vars

\* a request has answered after its entry order was refused, another one
\* after its stop-loss and take-profit orders were both refused
C18_Witness ==
    \/ \E r \in Reqs :
          /\ venue = "bybit" /\ Done(r) /\ resp[r].code = 500
          /\ \E i \in OrdersOf(r, "entry") : ~Log(r)[i].ok
    \/ \E r \in Reqs :
          /\ Done(r)
          /\ \E i \in OrdersOf(r, "sl") : ~Log(r)[i].ok
          /\ \E i \in OrdersOf(r, "tp") : ~Log(r)[i].ok

\* the kinds of failure request r has met: a sizing failure (a failed price
\* or metadata lookup, or no quantity), a venue failure while flattening, a
\* refused entry order
Failures(r) ==
    {k \in {"sizing", "flatten", "entry"} :
        \/ /\ k = "sizing"
           /\ \/ \E i \in Idx(r) : StepRank(Log(r)[i].kind) = 2 /\ ~Log(r)[i].ok
              \/ Done(r) /\ HasCall(r, "instrument") /\ amount[r] = NoQty
        \/ k = "flatten" /\ FlattenFailed(r)
        \/ k = "entry" /\ \E i \in OrdersOf(r, "entry") : ~Log(r)[i].ok}

\* C19: two LONG/SHORT requests that met one kind of failure each, and not
\* the same kind, are answered differently.
C19_FailureKindVisible ==
    \A r1, r2 \in Reqs :
        ( /\ Done(r1) /\ Done(r2) /\ IsTrade(r1) /\ IsTrade(r2)
          /\ Cardinality(Failures(r1)) = 1 /\ Cardinality(Failures(r2)) = 1
          /\ Failures(r1) # Failures(r2) )
        => resp[r1] # resp[r2]

\* the quantity the sizer of the venue returns for the signal of request r
SizedQty(r) ==
    IF venue = "okx"
    THEN IF \E i \in Idx(r) : Log(r)[i].kind = "markets" /\ Log(r)[i].ok
         THEN OkxPositionSize(OkxMarkets(sig[r].symbol), sig[r].risk_usd,
                              sig[r].entry, sig[r].sl)
         ELSE OkxDefaultQty
    ELSE IF venue = "bybit"
    THEN BybitPositionSize(BybitInstruments(sig[r].symbol), live[r], sig[r].sl,
                           sig[r].risk_usd)
    ELSE AlpacaPositionSize(sig[r].risk_usd, sig[r].entry, sig[r].sl)

\* C20: the entry order of a LONG signal is a buy and that of a SHORT signal
\* a sell, it is a market order (no limit price, not reduce-only), and its
\* quantity is the quantity sizing returned.
C20_EntrySideAndQuantity ==
    \A r \in Reqs : \A i \in EntryOrders(r) :
        IsTrade(r)
        => /\ Log(r)[i].side = (IF sig[r].signal = "LONG" THEN "buy" ELSE "sell")
           /\ Log(r)[i].price = 0 /\ ~Log(r)[i].reduceOnly
           /\ Log(r)[i].symbol = sig[r].symbol
           /\ Log(r)[i].qty = amount[r]
           /\ Log(r)[i].qty = SizedQty(r)

\* a LONG and a SHORT signal have both had their entry orders filled
C20_Witness ==
    \E r1, r2 \in Reqs :
        /\ IsTrade(r1) /\ sig[r1].signal = "LONG" /\ EntryFilled(r1)
        /\ IsTrade(r2) /\ sig[r2].signal = "SHORT" /\ EntryFilled(r2)

\* C21: every stop-loss and take-profit order follows a filled entry order
\* of its request, is reduce-only, on the side opposite to that entry, for
\* the same symbol and quantity, and carries the stop (target) price of the
\* signal.
C21_ProtectiveLegsReduceOnly ==
    \A r \in Reqs : \A i \in OrdersOf(r, "sl") \cup OrdersOf(r, "tp") :
        /\ Log(r)[i].reduceOnly
        /\ Log(r)[i].price = (IF Log(r)[i].kind = "sl" THEN sig[r].sl ELSE sig[r].tp)
        /\ Log(r)[i].price # 0
        /\ \E j \in OrdersOf(r, "entry") :
              /\ j < i /\ Log(r)[j].ok
              /\ Log(r)[i].side # Log(r)[j].side
              /\ Log(r)[i].symbol = Log(r)[j].symbol
              /\ Log(r)[i].qty = Log(r)[j].qty

\* a SHORT signal has had its entry filled and both protective orders
\* accepted
C21_Witness ==
    \E r \in Reqs :
        /\ Done(r) /\ sig[r].signal = "SHORT"
        /\ \E i \in OrdersOf(r, "sl") : Log(r)[i].ok /\ Log(r)[i].side = "buy"
        /\ \E i \in OrdersOf(r, "tp") : Log(r)[i].ok /\ Log(r)[i].side = "buy"

\* the logged order, if filled, opens or increases a leg of its symbol
Opens(o) ==
    LET l == Fill(o.pre, o.side, o.qty, o.reduceOnly)
    IN  l.long > o.pre.long \/ l.short > o.pre.short

\* C22: a CLOSE signal is never sized, its venue calls are the fetch of the
\* positions and closing orders for the named symbol only, and none of its
\* orders opens or increases a position.
C22_CloseFlattenOnly ==
    \A r \in Reqs :
        IsClose(r)
        => /\ amount[r] = 0
           /\ \A i \in Idx(r) :
                /\ Log(r)[i].kind \in {"positions", "close"}
                /\ Log(r)[i].symbol = sig[r].symbol
                /\ Log(r)[i].kind = "close"
                   => Log(r)[i].qty > 0 /\ ~Opens(Log(r)[i])

\* place_order of request r has returned None before the flatten block: the
\* live price could not be fetched, or sizing returned no quantity
BybitUnsized(r) ==
    /\ venue = "bybit" /\ IsTrade(r)
    /\ \/ \E i \in Idx(r) : Log(r)[i].kind = "ticker" /\ ~Log(r)[i].ok
       \/ HasCall(r, "instrument") /\ amount[r] = NoQty

\* C23: a Bybit request whose price lookup failed or whose sizing returned
\* no quantity has answered 500 having submitted no order, and every venue
\* call it made found the positions of its symbol as they are now if no
\* other request is at work.
C23_BybitNoSizeNoOrder ==
    \A r \in Reqs :
        BybitUnsized(r)
        => /\ Done(r) /\ resp[r] = BybitFailed
           /\ ~HasOrder(r) /\ ~HasCall(r, "positions")
           /\ ~threaded => \A i \in Idx(r) : Log(r)[i].pre = LegsOf(sig[r].symbol)

\* the three ways: no price, no instrument, zero risk per unit, the last
\* with a position open that stays open
C23_Witness ==
    \E r \in Reqs :
        /\ BybitUnsized(r) /\ Done(r)
        /\ \E i \in Idx(r) : Log(r)[i].kind = "instrument" /\ Log(r)[i].ok
        /\ live[r] = sig[r].sl
        /\ LegsOf(sig[r].symbol) # Flat

OkxTrade(r) == venue = "okx" /\ IsTrade(r) /\ ~Unparsable(sig[r])

\* C25: on OKX a LONG/SHORT signal without a stop price (absent or 0) is
\* sized with the entry price itself as risk per unit and entered, no
\* stop-loss order is attempted, and it is answered with success unless the
\* entry order itself is refused; a signal without a target price has no
\* take-profit order attempted.
C25_OkxNoStopStillTrades ==
    \A r \in Reqs :
        /\ (OkxTrade(r) /\ sig[r].sl = 0)
           => /\ ~HasCall(r, "sl")
              /\ \A i \in OrdersOf(r, "markets") :
                    (Log(r)[i].ok /\ sig[r].symbol \in Listed /\ sig[r].entry # 0)
                    => amount[r] =
                         Max(Truncate((sig[r].risk_usd * Micro
                                         * OkxMarkets(sig[r].symbol).csInv)
                                        \div sig[r].entry,
                                      OkxMarkets(sig[r].symbol).lot),
                             OkxDefaultQty)
              /\ Done(r) => /\ HasCall(r, "entry")
                            /\ resp[r].code = (IF EntryFilled(r) THEN 200 ELSE 500)
        /\ (OkxTrade(r) /\ sig[r].tp = 0) => ~HasCall(r, "tp")

\* a signal with an entry price and neither stop nor target has been sized,
\* entered and answered with success
C25_Witness ==
    \E r \in Reqs :
        /\ OkxTrade(r) /\ sig[r].entry # 0 /\ sig[r].sl = 0 /\ sig[r].tp = 0
        /\ \E i \in OrdersOf(r, "markets") : Log(r)[i].ok
        /\ Done(r) /\ resp[r].code = 200 /\ amount[r] > OkxDefaultQty

====
